---- MODULE Spec2Model ----
(***************************************************************************)
(* Risk-adaptive authentication engine of the credit simulator:            *)
(* RiskEngine (src/auth/risk_engine.py) and the request handlers of        *)
(* src/main.py that call it (login, create_loan, make_payment).            *)
(*                                                                         *)
(* Scores are decimal fractions with one digit (0.1 .. 0.9) and means of   *)
(* three or four of them.  A score s is held as the integer s * One, with  *)
(* One a multiple of 10, 3 and 4, so that every factor and every mean is   *)
(* an integer and the division of the mean is exact.  Binary rounding of   *)
(* the Python floats is not represented.                                   *)
(*                                                                         *)
(* Time is counted in half hours since an arbitrary midnight (UTC).        *)
(***************************************************************************)
EXTENDS Integers, Sequences, FiniteSets, TLC

VARIABLES
    now,               \* datetime.utcnow(), in half hours
    users,             \* table users: id -> row
    security_events,   \* table security_events, in insertion order
    payments,          \* table payments, in insertion order
    loans,             \* table loans, in insertion order
    risk_assessments,  \* table risk_assessments, in insertion order
    pc,                \* handler position: "idle", or the handler that holds a score
    call,              \* arguments of the latest assess_* call
    risk_factors,      \* the local dict risk_factors of that call
    overall_risk,      \* the local overall_risk of that call: <<>> until computed
    result,            \* what the call gave its caller: a score or an exception
    response,          \* the latest HTTP response
    requests,          \* number of requests handled so far
    ticks,             \* number of clock advances so far
    resolved,          \* the latest determine_auth_requirements calls, newest last
    workers            \* concurrent assess_* calls: thread -> its frame

vars == <<now, users, security_events, payments, loans, risk_assessments, pc,
          call, risk_factors, overall_risk, result, response, requests, ticks,
          resolved, workers>>

engine == <<call, risk_factors, overall_risk, result>>
tables == <<users, security_events, payments, loans, risk_assessments>>

----------------------------------------------------------------------------
(* Bounds of the model *)

MaxRequests == 1
MaxTicks == 1
MaxLogins == 8
Margin == 12

----------------------------------------------------------------------------
(* Values *)

One == 4 * 3 * 10
Score(tenths) == tenths * (One \div 10)

None == "None"
NoUser == 0
Users == {1, 2}
Locations == {"A", "B"}
Fingerprints == {"fp1", "fp2"}
PaymentMethods == {"bank_transfer", "crypto"}
Amounts == {1000, 2500, 6000}
LoanAmounts == {1000, 60000}

timedelta_hours(n) == 2 * n
timedelta_days(n) == 48 * n
hour(t) == (t \div 2) % 24

EmptyDict == [k \in {} |-> 0]

RECURSIVE sum(_)
sum(d) ==
    IF DOMAIN d = {} THEN 0
    ELSE LET k == CHOOSE x \in DOMAIN d : TRUE
         IN  d[k] + sum([x \in DOMAIN d \ {k} |-> d[x]])

Range(f) == { f[x] : x \in DOMAIN f }

len(d) == Cardinality(DOMAIN d)

get(d, k, default) == IF k \in DOMAIN d THEN d[k] ELSE default

----------------------------------------------------------------------------
(* RiskEngine.__init__ *)

risk_thresholds == [low |-> Score(3), medium |-> Score(6), high |-> Score(8)]

----------------------------------------------------------------------------
(* The queries of the assessors.  A query filters a table on user_id, on   *)
(* the kind of row and on created_at > utcnow() - window.                  *)

events_since(user_id, kinds, window) ==
    { i \in 1..Len(security_events) :
        /\ security_events[i].user_id = user_id
        /\ security_events[i].event_type \in kinds
        /\ security_events[i].created_at > now - window }

payments_since(user_id, window) ==
    { i \in 1..Len(payments) :
        /\ payments[i].user_id = user_id
        /\ payments[i].created_at > now - window }

RECURSIVE total_amount(_)
total_amount(rows) ==
    IF rows = {} THEN 0
    ELSE LET i == CHOOSE x \in rows : TRUE
         IN  payments[i].amount + total_amount(rows \ {i})

----------------------------------------------------------------------------
(* Signal assessors *)

\* faulty variant of _assess_location_risk: the last two results exchanged
_assess_location_risk_exchanged(user_id, current_location) ==
    IF current_location = None THEN Score(2)
    ELSE LET recent_events == events_since(user_id, {"login"}, timedelta_days(30))
             known_locations == { security_events[i].location : i \in
                                    { j \in recent_events :
                                        security_events[j].location # None } }
         IN  IF known_locations = {} THEN Score(3)
             ELSE IF current_location \in known_locations THEN Score(7)
             ELSE Score(1)

_assess_location_risk(user_id, current_location) ==
    IF current_location = None THEN Score(2)
    ELSE LET recent_events == events_since(user_id, {"login"}, timedelta_days(30))
             known_locations == { security_events[i].location : i \in
                                    { j \in recent_events :
                                        security_events[j].location # None } }
         IN  IF known_locations = {} THEN Score(3)
             ELSE IF current_location \in known_locations THEN Score(1)
             ELSE Score(7)

\* faulty variant of _assess_device_risk: an unknown device is the full risk
_assess_device_risk_full(user_id, device_fingerprint) ==
    LET fps == users[user_id].device_fingerprints
    IN  IF fps.null \/ DOMAIN fps.object = {} THEN Score(3)
        ELSE LET known_devices == get(fps.object, "devices", {})
             IN  IF device_fingerprint \in known_devices THEN Score(1)
                 ELSE One

_assess_device_risk(user_id, device_fingerprint) ==
    \* the JSON column: null, or an object (a dict)
    LET fps == users[user_id].device_fingerprints
    IN  IF fps.null \/ DOMAIN fps.object = {} THEN Score(3)
        ELSE LET known_devices == get(fps.object, "devices", {})
             IN  IF device_fingerprint \in known_devices THEN Score(1)
                 ELSE Score(6)

\* faulty variant of _assess_velocity_risk: the bounds belong to the higher value
_assess_velocity_risk_inclusive(user_id) ==
    LET recent_attempts ==
            Cardinality(events_since(user_id, {"login", "failed_login"},
                                     timedelta_hours(1)))
    IN  IF recent_attempts >= 5 THEN Score(8)
        ELSE IF recent_attempts >= 2 THEN Score(4)
        ELSE Score(1)

\* faulty variant of _assess_velocity_risk: the attempt under assessment is
\* counted with the recorded ones
_assess_velocity_risk_counting_itself(user_id) ==
    LET recent_attempts ==
            Cardinality(events_since(user_id, {"login", "failed_login"},
                                     timedelta_hours(1))) + 1
    IN  IF recent_attempts > 5 THEN Score(8)
        ELSE IF recent_attempts > 2 THEN Score(4)
        ELSE Score(1)

_assess_velocity_risk(user_id) ==
    LET recent_attempts ==
            Cardinality(events_since(user_id, {"login", "failed_login"},
                                     timedelta_hours(1)))
    IN  IF recent_attempts > 5 THEN Score(8)
        ELSE IF recent_attempts > 2 THEN Score(4)
        ELSE Score(1)

\* faulty variant of _assess_timing_risk: exactly 10% counts as unusual
_assess_timing_risk_inclusive(user_id) ==
    LET current_hour == hour(now)
        recent_logins == events_since(user_id, {"login"}, timedelta_days(30))
        hour_frequency(h) ==
            Cardinality({ i \in recent_logins : hour(security_events[i].created_at) = h })
    IN  IF recent_logins = {} THEN Score(2)
        ELSE IF hour_frequency(current_hour) = 0 THEN Score(5)
        ELSE IF hour_frequency(current_hour) * 10 <= Cardinality(recent_logins)
             THEN Score(3)
        ELSE Score(1)

_assess_timing_risk(user_id) ==
    LET current_hour == hour(now)
        recent_logins == events_since(user_id, {"login"}, timedelta_days(30))
        hour_frequency(h) ==
            Cardinality({ i \in recent_logins : hour(security_events[i].created_at) = h })
    IN  IF recent_logins = {} THEN Score(2)
        ELSE IF hour_frequency(current_hour) = 0 THEN Score(5)
        \* hour_frequency[current_hour] < len(recent_logins) * 0.1
        ELSE IF hour_frequency(current_hour) * 10 < Cardinality(recent_logins)
             THEN Score(3)
        ELSE Score(1)

\* faulty variant of _assess_amount_risk: the absolute bounds are tried first,
\* history or not
_assess_amount_risk_absolute(user_id, amount) ==
    LET recent_payments == payments_since(user_id, timedelta_days(30))
        n == Cardinality(recent_payments)
        total == total_amount(recent_payments)
    IN  IF amount > 10000 THEN Score(8)
        ELSE IF amount > 5000 THEN Score(5)
        ELSE IF recent_payments = {} THEN Score(2)
        ELSE IF amount * n > total * 3 THEN Score(8)
        ELSE IF amount * n > total * 2 THEN Score(5)
        ELSE Score(2)

_assess_amount_risk(user_id, amount) ==
    LET recent_payments == payments_since(user_id, timedelta_days(30))
        n == Cardinality(recent_payments)
        total == total_amount(recent_payments)
    IN  IF recent_payments = {}
        THEN IF amount > 10000 THEN Score(8)
             ELSE IF amount > 5000 THEN Score(5)
             ELSE Score(2)
        \* avg_amount = total / n; amount > avg_amount * 3, both sides times n
        ELSE IF amount * n > total * 3 THEN Score(8)
             ELSE IF amount * n > total * 2 THEN Score(5)
             ELSE Score(2)

\* faulty variant of _assess_frequency_risk: the window of the amount query
_assess_frequency_risk_month(user_id) ==
    LET today_payments == Cardinality(payments_since(user_id, timedelta_days(30)))
    IN  IF today_payments > 10 THEN Score(9)
        ELSE IF today_payments > 5 THEN Score(6)
        ELSE Score(2)

_assess_frequency_risk(user_id) ==
    LET today_payments == Cardinality(payments_since(user_id, timedelta_hours(24)))
    IN  IF today_payments > 10 THEN Score(9)
        ELSE IF today_payments > 5 THEN Score(6)
        ELSE Score(2)

min(a, b) == IF a < b THEN a ELSE b

_assess_behavioral_risk(user_id, transaction_data) ==
    LET unusual == IF transaction_data.payment_method \notin {"bank_transfer", "card"}
                   THEN Score(3) ELSE 0
        offhours == IF hour(now) < 6 \/ hour(now) > 22 THEN Score(2) ELSE 0
    IN  min(0 + unusual + offhours, One)

----------------------------------------------------------------------------
(* Risk aggregator.  A call runs its assessors in order, averages, stores  *)
(* the record and returns.  Every query and the final commit go to the     *)
(* database and may raise; no frame of the engine catches, so the first    *)
(* operation that raises ends the call with that exception.  `fail` names  *)
(* the operation that raises in this call, "none" when none does.          *)

LoginKeys == {"location", "device", "velocity", "timing"}
TransactionKeys == {"amount", "frequency", "behavioral"}

\* the database operations of a login call, in order; the location query
\* is skipped when no location is supplied
LoginOps(context) ==
    (IF context.location # None THEN {"location"} ELSE {})
        \cup {"velocity", "timing", "store"}

TransactionOps == {"amount", "frequency", "store"}

\* faulty variant of LoginKeysBefore: the timing assessor is never run
LoginKeysBefore_untimed(fail) ==
    CASE fail = "location" -> {}
      [] fail = "velocity" -> {"location", "device"}
      [] OTHER             -> {"location", "device", "velocity"}

\* the keys already in risk_factors when operation `fail` raises
LoginKeysBefore(fail) ==
    CASE fail = "location" -> {}
      [] fail = "velocity" -> {"location", "device"}
      [] fail = "timing"   -> {"location", "device", "velocity"}
      [] OTHER             -> LoginKeys

TransactionKeysBefore(fail) ==
    CASE fail = "amount"    -> {}
      [] fail = "frequency" -> {"amount"}
      [] OTHER              -> TransactionKeys

login_risk_factors(user_id, context) ==
    [k \in LoginKeys |->
        CASE k = "location" -> _assess_location_risk(user_id, context.location)
          [] k = "device"   -> _assess_device_risk(user_id, context.device_fingerprint)
          [] k = "velocity" -> _assess_velocity_risk(user_id)
          [] k = "timing"   -> _assess_timing_risk(user_id)]

transaction_risk_factors(user_id, transaction_data) ==
    [k \in TransactionKeys |->
        CASE k = "amount"     -> _assess_amount_risk(user_id, transaction_data.amount)
          [] k = "frequency"  -> _assess_frequency_risk(user_id)
          [] k = "behavioral" -> _assess_behavioral_risk(user_id, transaction_data)]

RECURSIVE max(_)
max(d) ==
    LET k == CHOOSE x \in DOMAIN d : TRUE
        rest == [x \in DOMAIN d \ {k} |-> d[x]]
    IN  IF DOMAIN rest = {} THEN d[k]
        ELSE IF d[k] > max(rest) THEN d[k] ELSE max(rest)

\* faulty variants of mean: the division left out; the largest factor taken
mean_undivided(factors) == sum(factors)
mean_largest(factors) == max(factors)

\* overall_risk = sum(risk_factors.values()) / len(risk_factors)
mean(factors) == sum(factors) \div len(factors)

RiskAssessment(user_id, assessment_type, factors, overall) ==
    [ user_id          |-> user_id,
      assessment_type  |-> assessment_type,
      behavioral_score |-> get(factors, "behavioral", 0),
      device_risk      |-> get(factors, "device", 0),
      location_risk    |-> get(factors, "location", 0),
      velocity_risk    |-> get(factors, "velocity", 0),
      overall_risk     |-> overall,
      context_data     |-> factors ]

\* faulty variants of _store_risk_assessment: only risky assessments are stored;
\* the row stays although the commit raised
_store_risk_assessment_risky(user_id, assessment_type, factors, overall, fail) ==
    IF fail = "store" \/ overall < risk_thresholds.medium THEN risk_assessments
    ELSE Append(risk_assessments,
                RiskAssessment(user_id, assessment_type, factors, overall))
_store_risk_assessment_uncommitted(user_id, assessment_type, factors, overall, fail) ==
    Append(risk_assessments,
           RiskAssessment(user_id, assessment_type, factors, overall))

\* db.add(assessment); db.commit(): the row is there iff the commit passes
_store_risk_assessment(user_id, assessment_type, factors, overall, fail) ==
    IF fail = "store" THEN risk_assessments
    ELSE Append(risk_assessments,
                RiskAssessment(user_id, assessment_type, factors, overall))

Returned(score) == [raised |-> FALSE, value |-> <<score>>]
Raised == [raised |-> TRUE, value |-> <<>>]

\* faulty variant of outcome: the exception of the store is caught and the score returned
outcome_swallowed(score, fail) == Returned(score)

\* what a call whose operation `fail` raises hands to its caller
outcome(score, fail) == IF fail = "none" THEN Returned(score) ELSE Raised

restrict(d, keys) == [k \in keys |-> d[k]]

\* faulty variant of assess_login_risk: an assessor whose query raises counts as low risk
assess_login_risk_guessed(user_id, context, fail) ==
    LET factors == login_risk_factors(user_id, context)
        guessed == IF fail \in LoginKeys
                   THEN [factors EXCEPT ![fail] = Score(1)] ELSE factors
        stored == IF fail = "store" THEN "store" ELSE "none"
    IN  /\ call' = [kind |-> "login", user_id |-> user_id, data |-> context,
                     fail |-> fail]
        /\ risk_factors' = guessed
        /\ overall_risk' = <<mean(guessed)>>
        /\ risk_assessments' =
              _store_risk_assessment(user_id, "login", guessed, mean(guessed), stored)
        /\ result' = outcome(mean(guessed), stored)
        /\ UNCHANGED <<users, security_events, payments>>

\* faulty variant of assess_login_risk: the fingerprint of the request is
\* registered as a device of the user
assess_login_risk_learning(user_id, context, fail) ==
    LET factors == restrict(login_risk_factors(user_id, context),
                            LoginKeysBefore(fail))
        averaged == fail \in {"store", "none"}
        known == get(users[user_id].device_fingerprints.object, "devices", {})
    IN  /\ call' = [kind |-> "login", user_id |-> user_id, data |-> context,
                     fail |-> fail]
        /\ risk_factors' = factors
        /\ overall_risk' = IF averaged THEN <<mean(factors)>> ELSE <<>>
        /\ risk_assessments' =
              IF averaged
              THEN _store_risk_assessment(user_id, "login", factors,
                                          mean(factors), fail)
              ELSE risk_assessments
        /\ result' = IF averaged THEN outcome(mean(factors), fail) ELSE Raised
        /\ users' = [users EXCEPT ![user_id].device_fingerprints =
                        [null |-> FALSE,
                         object |-> [k \in {"devices"} |->
                                        known \cup {context.device_fingerprint}]]]
        /\ UNCHANGED <<security_events, payments>>

assess_login_risk(user_id, context, fail) ==
    LET factors == restrict(login_risk_factors(user_id, context),
                            LoginKeysBefore(fail))
        averaged == fail \in {"store", "none"}
    IN  /\ call' = [kind |-> "login", user_id |-> user_id, data |-> context,
                     fail |-> fail]
        /\ risk_factors' = factors
        /\ overall_risk' = IF averaged THEN <<mean(factors)>> ELSE <<>>
        /\ risk_assessments' =
              IF averaged
              THEN _store_risk_assessment(user_id, "login", factors,
                                          mean(factors), fail)
              ELSE risk_assessments
        /\ result' = IF averaged THEN outcome(mean(factors), fail) ELSE Raised
        \* the assessors only query; the aggregator writes risk_assessments alone
        /\ UNCHANGED <<users, security_events, payments>>

assess_transaction_risk(user_id, transaction_data, fail) ==
    LET factors == restrict(transaction_risk_factors(user_id, transaction_data),
                            TransactionKeysBefore(fail))
        averaged == fail \in {"store", "none"}
    IN  /\ call' = [kind |-> "transaction", user_id |-> user_id,
                     data |-> transaction_data, fail |-> fail]
        /\ risk_factors' = factors
        /\ overall_risk' = IF averaged THEN <<mean(factors)>> ELSE <<>>
        /\ risk_assessments' =
              IF averaged
              THEN _store_risk_assessment(user_id, "transaction", factors,
                                          mean(factors), fail)
              ELSE risk_assessments
        /\ result' = IF averaged THEN outcome(mean(factors), fail) ELSE Raised
        \* the assessors only query; the aggregator writes risk_assessments alone
        /\ UNCHANGED <<users, security_events, payments>>

----------------------------------------------------------------------------
(* Authentication policy resolver *)

\* faulty variants of determine_auth_requirements: open lower bounds; the second
\* comparison turned round
determine_auth_requirements_open(score) ==
    IF score > risk_thresholds.high
    THEN [ auth_level |-> "biometric_mfa",
           requires_mfa |-> TRUE,
           requires_biometric |-> TRUE,
           additional_verification |-> TRUE,
           message |-> "High-risk activity detected. Enhanced verification required." ]
    ELSE IF score > risk_thresholds.medium
    THEN [ auth_level |-> "mfa",
           requires_mfa |-> TRUE,
           requires_biometric |-> FALSE,
           additional_verification |-> FALSE,
           message |-> "Additional verification required for security." ]
    ELSE [ auth_level |-> "basic",
           requires_mfa |-> FALSE,
           requires_biometric |-> FALSE,
           additional_verification |-> FALSE,
           message |-> "Standard authentication sufficient." ]
determine_auth_requirements_turned(score) ==
    IF score >= risk_thresholds.high
    THEN [ auth_level |-> "biometric_mfa",
           requires_mfa |-> TRUE,
           requires_biometric |-> TRUE,
           additional_verification |-> TRUE,
           message |-> "High-risk activity detected. Enhanced verification required." ]
    ELSE IF score <= risk_thresholds.medium
    THEN [ auth_level |-> "mfa",
           requires_mfa |-> TRUE,
           requires_biometric |-> FALSE,
           additional_verification |-> FALSE,
           message |-> "Additional verification required for security." ]
    ELSE [ auth_level |-> "basic",
           requires_mfa |-> FALSE,
           requires_biometric |-> FALSE,
           additional_verification |-> FALSE,
           message |-> "Standard authentication sufficient." ]

\* faulty variant of determine_auth_requirements: the engine remembers the
\* highest score it was asked about last and resolves that one
determine_auth_requirements_remembering(score) ==
    LET remembered == IF resolved # <<>> /\ resolved[Len(resolved)].risk_score > score
                      THEN resolved[Len(resolved)].risk_score
                      ELSE score
    IN  IF remembered >= risk_thresholds.high
        THEN [ auth_level |-> "biometric_mfa",
               requires_mfa |-> TRUE,
               requires_biometric |-> TRUE,
               additional_verification |-> TRUE,
               message |-> "High-risk activity detected. Enhanced verification required." ]
        ELSE IF remembered >= risk_thresholds.medium
        THEN [ auth_level |-> "mfa",
               requires_mfa |-> TRUE,
               requires_biometric |-> FALSE,
               additional_verification |-> FALSE,
               message |-> "Additional verification required for security." ]
        ELSE [ auth_level |-> "basic",
               requires_mfa |-> FALSE,
               requires_biometric |-> FALSE,
               additional_verification |-> FALSE,
               message |-> "Standard authentication sufficient." ]

determine_auth_requirements(risk_score) ==
    IF risk_score >= risk_thresholds.high
    THEN [ auth_level |-> "biometric_mfa",
           requires_mfa |-> TRUE,
           requires_biometric |-> TRUE,
           additional_verification |-> TRUE,
           message |-> "High-risk activity detected. Enhanced verification required." ]
    ELSE IF risk_score >= risk_thresholds.medium
    THEN [ auth_level |-> "mfa",
           requires_mfa |-> TRUE,
           requires_biometric |-> FALSE,
           additional_verification |-> FALSE,
           message |-> "Additional verification required for security." ]
    ELSE [ auth_level |-> "basic",
           requires_mfa |-> FALSE,
           requires_biometric |-> FALSE,
           additional_verification |-> FALSE,
           message |-> "Standard authentication sufficient." ]

----------------------------------------------------------------------------
(* Rows written by the handlers (the columns the engine reads) *)

SecurityEvent(user_id, event_type, location) ==
    [user_id |-> user_id, event_type |-> event_type, location |-> location,
     created_at |-> now]

Payment(user_id, amount) ==
    [user_id |-> user_id, amount |-> amount, created_at |-> now]

Loan(user_id, amount, status) ==
    [user_id |-> user_id, amount |-> amount, status |-> status]

\* request.state.risk_context, built by risk_assessment_middleware
RiskContext == [location : Locations \cup {None}, device_fingerprint : Fingerprints]

\* one more call of the resolver, the two latest kept
Resolved(risk_score) ==
    LET all == Append(resolved, [risk_score |-> risk_score,
                                 decision |-> determine_auth_requirements(risk_score),
                                 stored |-> Len(risk_assessments)])
    IN  IF Len(all) > 2 THEN Tail(all) ELSE all

risk_score == result.value[1]

----------------------------------------------------------------------------
(* POST /auth/login *)

LoginRejected(context) ==
    /\ pc = "idle"
    /\ requests < MaxRequests
    /\ requests' = requests + 1
    /\ security_events' =
          Append(security_events, SecurityEvent(NoUser, "failed_login", context.location))
    /\ response' = "401"
    /\ UNCHANGED <<now, users, payments, loans, risk_assessments, pc, engine,
                   ticks, resolved, workers>>

\* the handler up to the return of assess_login_risk, as one of at most
\* limit requests
LoginCall(limit, user_id, context, fail) ==
    /\ pc = "idle"
    /\ requests < limit
    /\ fail \in LoginOps(context) \cup {"none"}
    /\ requests' = requests + 1
    /\ assess_login_risk(user_id, context, fail)
    /\ pc' = IF result'.raised THEN "idle" ELSE "login"
    /\ response' = IF result'.raised THEN "500" ELSE "pending"
    /\ UNCHANGED <<now, loans, ticks, resolved, workers>>

LoginAssess(user_id, context, fail) == LoginCall(MaxRequests, user_id, context, fail)

\* faulty variant of LoginComplete: the event is logged on the token path only
LoginComplete_quiet ==
    /\ pc = "login"
    /\ LET auth_requirements == determine_auth_requirements(risk_score)
           user == users[call.user_id]
       IN  /\ security_events' =
                 IF auth_requirements.requires_mfa THEN security_events
                 ELSE Append(security_events,
                             SecurityEvent(call.user_id, "login", call.data.location))
           /\ response' =
                 IF auth_requirements.requires_mfa /\ ~user.mfa_enabled
                 THEN "requires_setup"
                 ELSE IF auth_requirements.requires_mfa THEN "challenge_required"
                 ELSE "access_token"
           /\ users' =
                 IF auth_requirements.requires_mfa THEN users
                 ELSE [users EXCEPT ![call.user_id].last_login = now]
    /\ pc' = "idle"
    /\ UNCHANGED <<now, payments, loans, risk_assessments, engine, requests, ticks,
                   resolved, workers>>

LoginComplete ==
    /\ pc = "login"
    /\ LET auth_requirements == determine_auth_requirements(risk_score)
           user == users[call.user_id]
       IN  /\ security_events' =
                 Append(security_events,
                        SecurityEvent(call.user_id, "login", call.data.location))
           /\ response' =
                 IF auth_requirements.requires_mfa /\ ~user.mfa_enabled
                 THEN "requires_setup"
                 ELSE IF auth_requirements.requires_mfa THEN "challenge_required"
                 ELSE "access_token"
           \* user_crud.update_last_login
           /\ users' =
                 IF auth_requirements.requires_mfa THEN users
                 ELSE [users EXCEPT ![call.user_id].last_login = now]
    /\ pc' = "idle"
    /\ UNCHANGED <<now, payments, loans, risk_assessments, engine, requests, ticks,
                   resolved, workers>>

----------------------------------------------------------------------------
(* POST /loans *)

LoanAssess(user_id, amount, fail) ==
    /\ pc = "idle"
    /\ requests < MaxRequests
    /\ fail \in TransactionOps \cup {"none"}
    /\ requests' = requests + 1
    \* transaction_context has no key payment_method
    /\ assess_transaction_risk(user_id, [amount |-> amount, payment_method |-> None],
                               fail)
    /\ pc' = IF result'.raised THEN "idle" ELSE "loan"
    /\ response' = IF result'.raised THEN "500" ELSE "pending"
    /\ UNCHANGED <<now, loans, ticks, resolved, workers>>

LoanComplete ==
    /\ pc = "loan"
    /\ IF risk_score > Score(7) /\ call.data.amount > 50000
       THEN /\ loans' = Append(loans, Loan(call.user_id, call.data.amount,
                                           "pending_review"))
            /\ security_events' =
                  Append(security_events,
                         SecurityEvent(call.user_id, "high_risk_loan_application",
                                       None))
            /\ response' = "pending_review"
       ELSE /\ loans' = Append(loans, Loan(call.user_id, call.data.amount, "approved"))
            /\ security_events' = security_events
            /\ response' = "approved"
    /\ pc' = "idle"
    /\ UNCHANGED <<now, users, payments, risk_assessments, engine, requests, ticks,
                   resolved, workers>>

----------------------------------------------------------------------------
(* POST /payments *)

owns_loan(user_id, loan_id) ==
    loan_id \in 1..Len(loans) /\ loans[loan_id].user_id = user_id

PaymentNotFound(user_id, loan_id) ==
    /\ pc = "idle"
    /\ requests < MaxRequests
    /\ ~owns_loan(user_id, loan_id)
    /\ requests' = requests + 1
    /\ response' = "404"
    /\ UNCHANGED <<now, tables, pc, engine, ticks, resolved, workers>>

PaymentAssess(user_id, loan_id, amount, payment_method, fail) ==
    /\ pc = "idle"
    /\ requests < MaxRequests
    /\ owns_loan(user_id, loan_id)
    /\ fail \in TransactionOps \cup {"none"}
    /\ requests' = requests + 1
    /\ assess_transaction_risk(user_id, [amount |-> amount,
                                         payment_method |-> payment_method], fail)
    /\ pc' = IF result'.raised THEN "idle" ELSE "payment"
    /\ response' = IF result'.raised THEN "500" ELSE "pending"
    /\ UNCHANGED <<now, loans, ticks, resolved, workers>>

\* faulty variant of PaymentComplete: the payment is created before the
\* requirements are looked at
PaymentComplete_eager ==
    /\ pc = "payment"
    /\ LET auth_requirements == determine_auth_requirements(risk_score)
       IN  /\ payments' = Append(payments, Payment(call.user_id, call.data.amount))
           /\ response' = IF auth_requirements.requires_mfa
                           THEN "requires_additional_auth"
                           ELSE "payment"
    /\ pc' = "idle"
    /\ UNCHANGED <<now, users, security_events, loans, risk_assessments, engine,
                   requests, ticks, resolved, workers>>

PaymentComplete ==
    /\ pc = "payment"
    /\ LET auth_requirements == determine_auth_requirements(risk_score)
       IN  IF auth_requirements.requires_mfa
           THEN /\ payments' = payments
                /\ response' = "requires_additional_auth"
           ELSE /\ payments' = Append(payments, Payment(call.user_id,
                                                        call.data.amount))
                /\ response' = "payment"
    /\ pc' = "idle"
    /\ UNCHANGED <<now, users, security_events, loans, risk_assessments, engine,
                   requests, ticks, resolved, workers>>

----------------------------------------------------------------------------
(* The clock *)

Tick(d) ==
    /\ ticks < MaxTicks
    /\ ticks' = ticks + 1
    /\ now' = now + d
    /\ UNCHANGED <<tables, pc, engine, response, requests, resolved, workers>>

----------------------------------------------------------------------------
(* A direct call of the resolver with any score *)

ScoreInputs == (0 - Margin)..(One + Margin)

Resolve(score) ==
    /\ resolved' = Resolved(score)
    /\ UNCHANGED <<now, tables, pc, engine, response, requests, ticks, workers>>

----------------------------------------------------------------------------
(* Initial states.  The database is either new, or holds the recent        *)
(* activity of user 1: six logins from location A and eleven payments of   *)
(* 1000, all made at the start time, and the audit record of the first of  *)
(* these logins.  Each user has one approved loan.                         *)
(* User 1 has one registered device and may have MFA enabled; user 2 has   *)
(* no registered device and no MFA.                                        *)

Start == timedelta_days(31) + 45

Repeat(n, row) == [i \in 1..n |-> row]

JsonNull == [null |-> TRUE, object |-> EmptyDict]
JsonObject(d) == [null |-> FALSE, object |-> d]

InitUsers(mfa) ==
    [u \in Users |->
        IF u = 1
        THEN [device_fingerprints |-> JsonObject([k \in {"devices"} |-> {"fp1"}]),
              mfa_enabled |-> mfa, last_login |-> Start]
        ELSE [device_fingerprints |-> JsonNull,
              mfa_enabled |-> FALSE, last_login |-> Start]]

\* the record of the first login of user 1: from location A with the
\* registered device, no event before it
FirstLogin ==
    LET factors == [k \in LoginKeys |->
                       CASE k = "location" -> Score(3)
                         [] k = "device"   -> Score(1)
                         [] k = "velocity" -> Score(1)
                         [] k = "timing"   -> Score(2)]
    IN  RiskAssessment(1, "login", factors, mean(factors))

Threads == {1, 2}

\* a thread that has not called yet
Ready ==
    [pc |-> "ready", kind |-> "none", user_id |-> NoUser, data |-> EmptyDict,
     risk_factors |-> EmptyDict, overall_risk |-> <<>>, result |-> Raised,
     row |-> 0]

NoCall == [kind |-> "none", user_id |-> NoUser, data |-> EmptyDict, fail |-> "none"]

Init ==
    /\ now = Start
    /\ \E busy \in BOOLEAN :
          /\ \E mfa \in {FALSE, busy} : users = InitUsers(mfa)
          /\ security_events =
                IF busy
                THEN Repeat(6, [user_id |-> 1, event_type |-> "login",
                                location |-> "A", created_at |-> Start])
                ELSE <<>>
          /\ payments =
                IF busy
                THEN Repeat(11, [user_id |-> 1, amount |-> 1000, created_at |-> Start])
                ELSE <<>>
          /\ risk_assessments = IF busy THEN <<FirstLogin>> ELSE <<>>
    /\ loans = <<Loan(1, 1000, "approved"), Loan(2, 1000, "approved")>>
    /\ pc = "idle"
    /\ call = NoCall
    /\ risk_factors = EmptyDict
    /\ overall_risk = <<>>
    /\ result = Raised
    /\ response = "none"
    /\ requests = 0
    /\ ticks = 0
    /\ resolved = <<>>
    /\ workers = [t \in Threads |-> Ready]

Next ==
    \/ \E c \in RiskContext : LoginRejected(c)
    \/ \E u \in Users, c \in RiskContext,
          f \in {"location", "velocity", "timing", "store", "none"} :
          LoginAssess(u, c, f)
    \/ LoginComplete
    \/ \E u \in Users, a \in LoanAmounts, f \in TransactionOps \cup {"none"} :
          LoanAssess(u, a, f)
    \/ LoanComplete
    \/ \E u \in Users, l \in 1..(Len(loans) + 1) : PaymentNotFound(u, l)
    \/ \E u \in Users, l \in 1..Len(loans), a \in Amounts, m \in PaymentMethods,
          f \in TransactionOps \cup {"none"} :
          PaymentAssess(u, l, a, m, f)
    \/ PaymentComplete
    \/ \E d \in {timedelta_hours(1) \div 2, timedelta_hours(24), timedelta_days(30)} :
          Tick(d)

Spec == Init /\ [][Next]_vars

\* the resolver on its own, called with any score
InitResolve == Init /\ users = InitUsers(FALSE) /\ security_events = <<>>

NextResolve == \E s \in ScoreInputs : Resolve(s)

SpecResolve == InitResolve /\ [][NextResolve]_vars

----------------------------------------------------------------------------
(* Concurrent calls.  The application holds one RiskEngine, risk_engine,   *)
(* and every request thread calls its methods.  A call keeps risk_factors  *)
(* and overall_risk in its own frame; the instance holds risk_thresholds   *)
(* only.  A thread runs one call, one statement at a time: the dict is     *)
(* created, each assessor is run and its value stored under its key, the   *)
(* mean is taken, the record is stored.  Each request has its own session, *)
(* so the commits of two threads add two rows.                             *)

\* faulty variant of FrameOf: risk_factors kept on the shared instance
FrameOf_instance(t) == CHOOSE u \in Threads : \A v \in Threads : u <= v

\* the frame that holds the risk_factors of the call of thread t: its own
FrameOf(t) == t

Statements(kind) ==
    IF kind = "login"
    THEN <<"location", "device", "velocity", "timing", "mean", "store", "done">>
    ELSE <<"amount", "frequency", "behavioral", "mean", "store", "done">>

After(kind, statement) ==
    LET order == Statements(kind)
        i == CHOOSE j \in DOMAIN order : order[j] = statement
    IN  order[i + 1]

TransactionData == [amount : Amounts, payment_method : PaymentMethods]

\* risk_factors = {}
Enter(t, kind, user_id, data) ==
    /\ workers[t].pc = "ready"
    /\ LET f == FrameOf(t)
           entered == [workers EXCEPT ![t] =
                          [@ EXCEPT !.pc = Statements(kind)[1], !.kind = kind,
                                    !.user_id = user_id, !.data = data]]
       IN  workers' = [entered EXCEPT ![f].risk_factors = EmptyDict]
    /\ UNCHANGED <<now, tables, pc, engine, response, requests, ticks, resolved>>

\* risk_factors[key] = self._assess_..._risk(...)
Assess(t) ==
    LET w == workers[t]
        f == FrameOf(t)
        key == w.pc
        value == IF w.kind = "login"
                 THEN login_risk_factors(w.user_id, w.data)[key]
                 ELSE transaction_risk_factors(w.user_id, w.data)[key]
        assessed == [workers EXCEPT ![f].risk_factors = (key :> value) @@ @]
    IN  /\ w.pc \in LoginKeys \cup TransactionKeys
        /\ workers' = [assessed EXCEPT ![t].pc = After(w.kind, key)]
        /\ UNCHANGED <<now, tables, pc, engine, response, requests, ticks, resolved>>

\* overall_risk = sum(risk_factors.values()) / len(risk_factors)
Average(t) ==
    LET w == workers[t]
        factors == workers[FrameOf(t)].risk_factors
    IN  /\ w.pc = "mean"
        /\ workers' =
              IF len(factors) = 0
              THEN [workers EXCEPT ![t].pc = "done", ![t].result = Raised]
              ELSE [workers EXCEPT ![t].pc = "store",
                                   ![t].overall_risk = <<mean(factors)>>]
        /\ UNCHANGED <<now, tables, pc, engine, response, requests, ticks, resolved>>

\* self._store_risk_assessment(...); return overall_risk
Store(t) ==
    LET w == workers[t]
        factors == workers[FrameOf(t)].risk_factors
    IN  /\ w.pc = "store"
        /\ risk_assessments' =
              _store_risk_assessment(w.user_id, w.kind, factors, w.overall_risk[1],
                                     "none")
        /\ workers' = [workers EXCEPT ![t].pc = "done",
                                      ![t].result = Returned(w.overall_risk[1]),
                                      ![t].row = Len(risk_assessments')]
        /\ UNCHANGED <<now, users, security_events, payments, loans, pc, engine,
                       response, requests, ticks, resolved>>

NextThreads ==
    \/ \E t \in Threads, u \in Users, c \in RiskContext : Enter(t, "login", u, c)
    \/ \E t \in Threads, u \in Users, d \in TransactionData :
          Enter(t, "transaction", u, d)
    \/ \E t \in Threads : Assess(t)
    \/ \E t \in Threads : Average(t)
    \/ \E t \in Threads : Store(t)

SpecThreads == Init /\ [][NextThreads]_vars

\* Resolver calls with assessments of one thread between them.
PureScores == {0, Score(3), Score(6), Score(8)}

NextPure ==
    \/ \E s \in PureScores : Resolve(s)
    \/ \E u \in Users, c \in RiskContext : Enter(1, "login", u, c)
    \/ \E u \in Users, d \in TransactionData : Enter(1, "transaction", u, d)
    \/ Assess(1)
    \/ Average(1)
    \/ Store(1)

SpecPure == Init /\ [][NextPure]_vars

\* Logins of one user, one after the other, up to MaxLogins of them.  User 2
\* has no event at the start.
Returning == 2

ReturningContexts == [location : {"A", None}, device_fingerprint : {"fp1"}]

NextLogins ==
    \/ \E c \in ReturningContexts : LoginCall(MaxLogins, Returning, c, "none")
    \/ LoginComplete
    \/ Tick(timedelta_hours(1) \div 2)

SpecLogins == Init /\ [][NextLogins]_vars

----------------------------------------------------------------------------
(* The signal assessors on their own.  Each is a function of its arguments *)
(* and of the rows it queries, so it is applied to tables drawn from       *)
(* families of histories: rows of the user and of another user, of the     *)
(* kinds the queries name and of other kinds, with and without a location, *)
(* inside the windows, on their edge and outside them.                     *)

\* a security event and a payment created age half hours before Start
Event(user_id, event_type, location, age) ==
    [user_id |-> user_id, event_type |-> event_type, location |-> location,
     created_at |-> Start - age]

Paid(user_id, amount, age) ==
    [user_id |-> user_id, amount |-> amount, created_at |-> Start - age]

EventHistories ==
    { Repeat(a, Event(1, "login", "A", 1))
        \o Repeat(b, Event(1, "login", None, timedelta_hours(24) - 1))
        \o Repeat(c, Event(1, "login", "B", timedelta_days(30) - 1))
        \o Repeat(d, Event(1, "login", "B", timedelta_days(30)))
        \o Repeat(e, Event(1, "failed_login", "B", 0))
        \o Repeat(f, Event(1, "login", "A", timedelta_hours(1)))
        \o Repeat(g, Event(2, "login", "B", 0))
        \o Repeat(g, Event(NoUser, "failed_login", "B", 0))
        \o Repeat(g, Event(1, "registration", "B", 0)) :
        a \in 0..3, b \in {0, 8, 9, 10}, c \in 0..1, d \in 0..1,
        e \in {0, 1, 4}, f \in {0, 3}, g \in {0, 3} }

PaymentHistories ==
    { Repeat(a, Paid(1, 1000, timedelta_hours(24) - 1))
        \o Repeat(b, Paid(1, 5000, timedelta_hours(24)))
        \o Repeat(c, Paid(1, 9000, timedelta_days(30)))
        \o Repeat(d, Paid(2, 7000, 0)) :
        a \in {0, 1, 5, 6, 10, 11}, b \in 0..2, c \in 0..1, d \in {0, 11} }

\* values of the JSON column users.device_fingerprints
DeviceColumns ==
    { JsonNull, JsonObject(EmptyDict) }
        \cup { JsonObject([k \in {"devices"} |-> devices]) :
                  devices \in SUBSET Fingerprints }

AmountInputs == {2000, 2001, 3000, 3001, 5000, 5001, 6000, 10000, 10001}

\* times of evaluation around the clock: every half hour of the day of Start
Clocks == { timedelta_days(31) + t : t \in 0..(timedelta_hours(24) - 1) }

\* the payment method of a payload: a method, or None when the key is missing
BehaviorMethods == PaymentMethods \cup {"card", None}

InitSignals ==
    /\ \/ /\ now = Start
          /\ security_events \in EventHistories
          /\ payments = <<>>
          /\ users = InitUsers(FALSE)
       \/ /\ now = Start
          /\ security_events = <<>>
          /\ payments \in PaymentHistories
          /\ users = InitUsers(FALSE)
       \/ /\ now = Start
          /\ security_events = <<>>
          /\ payments = <<>>
          /\ \E column \in DeviceColumns :
                users = [InitUsers(FALSE) EXCEPT ![2].device_fingerprints = column]
       \/ /\ now \in Clocks
          /\ security_events = <<>>
          /\ payments = <<>>
          /\ users = InitUsers(FALSE)
    /\ risk_assessments = <<>>
    /\ loans = <<Loan(1, 1000, "approved"), Loan(2, 1000, "approved")>>
    /\ pc = "idle"
    /\ call = NoCall
    /\ risk_factors = EmptyDict
    /\ overall_risk = <<>>
    /\ result = Raised
    /\ response = "none"
    /\ requests = 0
    /\ ticks = 0
    /\ resolved = <<>>
    /\ workers = [t \in Threads |-> Ready]

\* one call of an assessor; its arguments and its value are kept
Applied(key, user_id, data, value) ==
    /\ call = NoCall
    /\ call' = [kind |-> key, user_id |-> user_id, data |-> data, fail |-> "none"]
    /\ risk_factors' = (key :> value)
    /\ UNCHANGED <<now, tables, pc, overall_risk, result, response, requests,
                   ticks, resolved, workers>>

ApplyLocation(user_id, current_location) ==
    Applied("location", user_id, [location |-> current_location],
            _assess_location_risk(user_id, current_location))

ApplyDevice(user_id, device_fingerprint) ==
    Applied("device", user_id, [device_fingerprint |-> device_fingerprint],
            _assess_device_risk(user_id, device_fingerprint))

ApplyVelocity(user_id) ==
    Applied("velocity", user_id, EmptyDict, _assess_velocity_risk(user_id))

ApplyTiming(user_id) ==
    Applied("timing", user_id, EmptyDict, _assess_timing_risk(user_id))

ApplyAmount(user_id, amount) ==
    Applied("amount", user_id, [amount |-> amount],
            _assess_amount_risk(user_id, amount))

ApplyFrequency(user_id) ==
    Applied("frequency", user_id, EmptyDict, _assess_frequency_risk(user_id))

ApplyBehavioral(user_id, payment_method) ==
    Applied("behavioral", user_id, [payment_method |-> payment_method],
            _assess_behavioral_risk(user_id, [payment_method |-> payment_method]))

NextSignals ==
    \/ \E u \in Users, l \in Locations \cup {None} : ApplyLocation(u, l)
    \/ \E u \in Users, fp \in Fingerprints : ApplyDevice(u, fp)
    \/ \E u \in Users : ApplyVelocity(u)
    \/ \E u \in Users : ApplyTiming(u)
    \/ \E u \in Users, amount \in AmountInputs : ApplyAmount(u, amount)
    \/ \E u \in Users : ApplyFrequency(u)
    \/ \E u \in Users, method \in BehaviorMethods : ApplyBehavioral(u, method)

SpecSignals == InitSignals /\ [][NextSignals]_vars

----------------------------------------------------------------------------
(* Properties *)

\* the step in which an assess_* call returns a score to its handler
Assessed == pc = "idle" /\ pc' # "idle"

HistoryReads == {"location", "velocity", "timing", "amount", "frequency"}

\* C1: the overall score of every assessment, as computed and as returned,
\* lies between 0.0 and 1.0
C1_ScoreInUnitInterval ==
    /\ overall_risk # <<>> => overall_risk[1] >= 0 /\ overall_risk[1] <= One
    /\ ~result.raised => result.value[1] >= 0 /\ result.value[1] <= One

\* a returned transaction score above 0.7 (0.8, 0.9 and 0.5 averaged)
C1_Witness ==
    /\ ~result.raised
    /\ call.kind = "transaction"
    /\ result.value[1] > Score(7)

\* C2: a call that returns a score has appended exactly one record, of the
\* assessed user and the kind of the call, with the returned score
C2_OneRecordPerCall ==
    [][Assessed =>
        /\ ~result'.raised
        /\ Len(risk_assessments') = Len(risk_assessments) + 1
        /\ SubSeq(risk_assessments', 1, Len(risk_assessments)) = risk_assessments
        /\ LET written == risk_assessments'[Len(risk_assessments')]
           IN  /\ written.user_id = call'.user_id
               /\ written.assessment_type = call'.kind
               /\ written.overall_risk = result'.value[1]]_vars

\* a low score (below 0.3) was returned and its record is the latest one
C2_Witness ==
    /\ pc # "idle"
    /\ ~result.raised
    /\ result.value[1] < Score(3)
    /\ Len(risk_assessments) > 0
    /\ risk_assessments[Len(risk_assessments)].overall_risk = result.value[1]

\* C3: when the store raises, the call raises too: the caller has no score
\* although overall_risk was computed, and the handler does not go on
C3_FailClosed ==
    call.fail = "store" =>
        /\ overall_risk # <<>>
        /\ result.raised
        /\ result.value = <<>>
        /\ pc = "idle"

C3_Witness ==
    /\ call.fail = "store"
    /\ overall_risk # <<>>
    /\ overall_risk[1] >= Score(6)

\* C4: the tiers of the resolver: from 0.8 on biometric_mfa with all three
\* flags, from 0.6 up to 0.8 mfa with requires_mfa alone, below 0.6 basic
\* with no flag
C4_Tiers ==
    \A i \in DOMAIN resolved :
        LET s == resolved[i].risk_score
            d == resolved[i].decision
        IN  /\ s >= Score(8) =>
                /\ d.auth_level = "biometric_mfa"
                /\ d.requires_mfa /\ d.requires_biometric /\ d.additional_verification
            /\ (s >= Score(6) /\ s < Score(8)) =>
                /\ d.auth_level = "mfa"
                /\ d.requires_mfa /\ ~d.requires_biometric /\ ~d.additional_verification
            /\ s < Score(6) =>
                /\ d.auth_level = "basic"
                /\ ~d.requires_mfa /\ ~d.requires_biometric /\ ~d.additional_verification

\* the resolver was called with exactly 0.6 and then with exactly 0.8
C4_Witness ==
    /\ Len(resolved) = 2
    /\ resolved[1].risk_score = Score(6) /\ resolved[1].decision.auth_level = "mfa"
    /\ resolved[2].risk_score = Score(8)
    /\ resolved[2].decision.auth_level = "biometric_mfa"

Strength(auth_level) ==
    CASE auth_level = "basic" -> 0
      [] auth_level = "mfa" -> 1
      [] auth_level = "biometric_mfa" -> 2

\* C5: of two calls of the resolver, the one with the larger score gets a
\* tier at least as strong
C5_Monotonic ==
    \A i, j \in DOMAIN resolved :
        resolved[i].risk_score <= resolved[j].risk_score =>
            Strength(resolved[i].decision.auth_level)
                <= Strength(resolved[j].decision.auth_level)

C5_Witness ==
    /\ Len(resolved) = 2
    /\ resolved[1].risk_score > resolved[2].risk_score
    /\ resolved[1].decision.auth_level = "mfa"
    /\ resolved[2].decision.auth_level = "basic"

\* C6: the resolver returns no decision for a score below 0.0 or above 1.0
C6_OutOfRangeRejected ==
    \A i \in DOMAIN resolved :
        resolved[i].risk_score >= 0 /\ resolved[i].risk_score <= One

\* C7: the overall score is the sum of the four login factors divided by 4,
\* or of the three transaction factors divided by 3
C7_UnweightedMean ==
    overall_risk # <<>> =>
        /\ call.kind = "login" =>
              overall_risk[1] * 4 =
                  risk_factors["location"] + risk_factors["device"]
                      + risk_factors["velocity"] + risk_factors["timing"]
        /\ call.kind = "transaction" =>
              overall_risk[1] * 3 =
                  risk_factors["amount"] + risk_factors["frequency"]
                      + risk_factors["behavioral"]

\* a login with the factors 0.7, 0.6, 0.8, 0.5 has the overall score 0.65
C7_Witness ==
    /\ call.kind = "login"
    /\ ~result.raised
    /\ risk_factors = [k \in {"location", "device", "velocity", "timing"} |->
                          CASE k = "location" -> Score(7)
                            [] k = "device"   -> Score(6)
                            [] k = "velocity" -> Score(8)
                            [] k = "timing"   -> Score(5)]
    /\ result.value[1] * 2 = Score(13)

FactorKeys(kind) ==
    IF kind = "login" THEN {"location", "device", "velocity", "timing"}
    ELSE {"amount", "frequency", "behavioral"}

\* C8: the factor set of a login assessment has exactly the keys location,
\* device, velocity, timing, that of a transaction assessment exactly
\* amount, frequency, behavioral
C8_FactorKeys ==
    /\ overall_risk # <<>> => DOMAIN risk_factors = FactorKeys(call.kind)
    /\ \A i \in DOMAIN risk_assessments :
          DOMAIN risk_assessments[i].context_data
              = FactorKeys(risk_assessments[i].assessment_type)

\* a login without location was assessed and stored with all four keys
C8_Witness ==
    /\ call.kind = "login"
    /\ call.data.location = None
    /\ ~result.raised
    /\ Len(risk_assessments) > 0
    /\ risk_assessments[Len(risk_assessments)].location_risk = Score(2)
    /\ DOMAIN risk_assessments[Len(risk_assessments)].context_data
          = {"location", "device", "velocity", "timing"}

\* C9: when a history query raises, the call raises: no score is computed or
\* returned, and risk_factors holds no value for the assessor that could not
\* read
C9_HistoryFailurePropagates ==
    call.fail \in HistoryReads =>
        /\ result.raised
        /\ result.value = <<>>
        /\ overall_risk = <<>>
        /\ call.fail \notin DOMAIN risk_factors
        /\ pc = "idle"

\* the velocity query raised after location and device were assessed
C9_Witness ==
    /\ call.kind = "login"
    /\ call.fail = "velocity"
    /\ DOMAIN risk_factors = {"location", "device"}

Complete(record) ==
    /\ DOMAIN record.context_data = FactorKeys(record.assessment_type)
    /\ record.overall_risk * len(record.context_data) = sum(record.context_data)

\* C10: every stored record carries the complete factor set of its kind and
\* the overall score of these factors; a step changes the table only by
\* appending the record of a call that returned, so a call that raises
\* leaves none
C10_AtomicWrite ==
    /\ [](\A i \in DOMAIN risk_assessments : Complete(risk_assessments[i]))
    /\ [][\/ risk_assessments' = risk_assessments
          \/ /\ Assessed
             /\ ~result'.raised
             /\ risk_assessments' =
                   Append(risk_assessments,
                          risk_assessments'[Len(risk_assessments')])]_vars

\* a login raised in the timing query with three of its factors assessed,
\* and the table holds no record of it
C10_Witness ==
    /\ result.raised
    /\ call.kind = "login"
    /\ call.fail = "timing"
    /\ DOMAIN risk_factors = {"location", "device", "velocity"}
    /\ \A i \in DOMAIN risk_assessments :
          DOMAIN risk_assessments[i].context_data # DOMAIN risk_factors


\* the step in which a handler calls assess_login_risk or
\* assess_transaction_risk, whether the call returns or raises
AssessCall ==
    /\ pc = "idle"
    /\ requests' # requests
    /\ response' \in {"500", "pending"}

\* C11: an assess_* call leaves the users, the security events and the
\* payments as they are and adds at most its own record after the records
\* already there; no step at all changes or removes a stored record
C11_OnlyAppends ==
    /\ [][AssessCall =>
            /\ users' = users
            /\ security_events' = security_events
            /\ payments' = payments
            /\ Len(risk_assessments') <= Len(risk_assessments) + 1]_vars
    /\ [][/\ Len(risk_assessments') >= Len(risk_assessments)
          /\ SubSeq(risk_assessments', 1, Len(risk_assessments))
                = risk_assessments]_vars

\* a login of user 1 was assessed on the database that held one record, six
\* events and eleven payments: its record is the second, the rest is as before
C11_Witness ==
    /\ pc = "login"
    /\ call.user_id = 1
    /\ Len(risk_assessments) = 2
    /\ risk_assessments[1] = FirstLogin
    /\ Len(security_events) = 6
    /\ Len(payments) = 11
    /\ users[1].device_fingerprints.object["devices"] = {"fp1"}

\* the threads whose call has returned a score
Returners == {t \in Threads : workers[t].pc = "done" /\ workers[t].result.raised = FALSE}

\* the dict a call with these inputs builds when it runs alone
Alone(w) ==
    IF w.kind = "login"
    THEN login_risk_factors(w.user_id, w.data)
    ELSE transaction_risk_factors(w.user_id, w.data)

\* C12: when several calls run at the same time on the one engine, every
\* call returns the mean of the factors of its own inputs and stores exactly
\* one record, its own, whatever the interleaving; no call raises, and no
\* step changes the history the other call reads.
C12_ConcurrentCalls ==
    /\ [](\A t \in Threads :
            workers[t].pc = "done" =>
              /\ t \in Returners
              /\ workers[t].result.value[1] = mean(Alone(workers[t]))
              /\ workers[t].row \in DOMAIN risk_assessments
              /\ risk_assessments[workers[t].row] =
                    RiskAssessment(workers[t].user_id, workers[t].kind,
                                   Alone(workers[t]), mean(Alone(workers[t])))
              /\ \A u \in Threads \ {t} : workers[u].row # workers[t].row)
    /\ [](\E seeded \in {<<>>, <<FirstLogin>>} :
            /\ Len(risk_assessments) = Len(seeded) + Cardinality(Returners)
            /\ SubSeq(risk_assessments, 1, Len(seeded)) = seeded)
    /\ [][/\ users' = users
          /\ security_events' = security_events
          /\ payments' = payments]_vars

\* both threads have returned, for the same user and different kinds of
\* operation, and the second thread stored its record before the first
C12_Witness ==
    /\ Returners = Threads
    /\ workers[1].kind = "login"
    /\ workers[2].kind = "transaction"
    /\ workers[1].user_id = workers[2].user_id
    /\ workers[2].row < workers[1].row
    /\ Len(security_events) = 6

Scenario(user_id, context) ==
    LET month == { e \in Range(security_events) :
                     /\ e.user_id = user_id
                     /\ e.event_type = "login"
                     /\ now - e.created_at < timedelta_days(30) }
        last_hour == { i \in DOMAIN security_events :
                         /\ security_events[i].user_id = user_id
                         /\ security_events[i].event_type \in {"login", "failed_login"}
                         /\ now - security_events[i].created_at < timedelta_hours(1) }
        registered == users[user_id].device_fingerprints
    IN  /\ context.location \in Locations
        /\ \E e \in month : e.location \in Locations
        /\ \A e \in month : e.location # context.location
        /\ ~registered.null
        /\ "devices" \in DOMAIN registered.object
        /\ registered.object["devices"] # {}
        /\ context.device_fingerprint \notin registered.object["devices"]
        /\ Cardinality(last_hour) = 6
        /\ \A e \in month : hour(e.created_at) # hour(now)

MonthOfLogins ==
    { e \in Range(security_events) :
        /\ e.user_id = call.user_id
        /\ e.event_type = "login"
        /\ now - e.created_at < timedelta_days(30) }

\* C15: location risk is 0.2 when no location is supplied; otherwise 0.3
\* when the user has no successful login in the last 30 days; otherwise 0.1
\* when the supplied location is the location of one of those logins;
\* otherwise 0.7, also when the user has logins in the window and none of
\* them carries the supplied location.
C15_LocationRisk ==
    call.kind = "location" =>
        risk_factors["location"] =
            IF call.data.location = None THEN Score(2)
            ELSE IF MonthOfLogins = {} THEN Score(3)
            ELSE IF \E e \in MonthOfLogins : e.location = call.data.location
                 THEN Score(1)
            ELSE Score(7)

\* the devices registered for the caller: the list under "devices" of the
\* JSON column, none when the column is null or has no such list
RegisteredDevices ==
    LET column == users[call.user_id].device_fingerprints
    IN  IF column.null \/ "devices" \notin DOMAIN column.object THEN {}
        ELSE column.object["devices"]

\* C16: device risk is 0.3 when the user has no registered device
\* fingerprints (the registered set is empty or absent), 0.1 when the current
\* fingerprint is in the registered set, and 0.6 when the registered set is
\* non-empty and does not contain the current fingerprint.
C16_DeviceRisk ==
    call.kind = "device" =>
        risk_factors["device"] =
            IF RegisteredDevices = {} THEN Score(3)
            ELSE IF call.data.device_fingerprint \in RegisteredDevices THEN Score(1)
            ELSE Score(6)

\* the caller's login and failed_login events of the last hour
Attempts ==
    { i \in DOMAIN security_events :
        /\ security_events[i].user_id = call.user_id
        /\ security_events[i].event_type \in {"login", "failed_login"}
        /\ now - security_events[i].created_at < timedelta_hours(1) }

\* C17: velocity risk is determined by the number n of the user's login and
\* failed_login events in the last hour: 0.8 when n > 5, 0.4 when
\* 2 < n <= 5, 0.1 when n <= 2; events of other kinds, of other users or
\* older than one hour are not counted.
C17_VelocityRisk ==
    call.kind = "velocity" =>
        LET n == Cardinality(Attempts)
        IN  risk_factors["velocity"] =
                IF n > 5 THEN Score(8)
                ELSE IF 2 < n /\ n <= 5 THEN Score(4)
                ELSE Score(1)

\* six attempts of user 1 in the last hour, among events of user 2, of no
\* user, of another kind and an hour old
C17_Witness ==
    /\ call.kind = "velocity"
    /\ call.user_id = 1
    /\ Cardinality(Attempts) = 6
    /\ \E e \in Range(security_events) : e.user_id = 2
    /\ \E e \in Range(security_events) : e.user_id = NoUser
    /\ \E e \in Range(security_events) : e.event_type = "registration"
    /\ \E e \in Range(security_events) :
          e.user_id = 1 /\ now - e.created_at = timedelta_hours(1)
    /\ risk_factors["velocity"] = Score(8)

\* the caller's successful logins of the last 30 days, and those of them in
\* the hour of day h
Logins ==
    { i \in DOMAIN security_events :
        /\ security_events[i].user_id = call.user_id
        /\ security_events[i].event_type = "login"
        /\ now - security_events[i].created_at < timedelta_days(30) }

LoginsAt(h) == { i \in Logins : hour(security_events[i].created_at) = h }

\* C18: timing risk, over the user's successful logins of the last 30 days
\* grouped by hour of day: 0.2 when there are none; 0.5 when no login falls
\* in the current hour; 0.3 when the count for the current hour is strictly
\* less than 10% of the total; 0.1 otherwise (exactly 10% yields 0.1).
C18_TimingRisk ==
    call.kind = "timing" =>
        LET total == Cardinality(Logins)
            current == Cardinality(LoginsAt(hour(now)))
        IN  risk_factors["timing"] =
                IF total = 0 THEN Score(2)
                ELSE IF current = 0 THEN Score(5)
                ELSE IF 10 * current < total THEN Score(3)
                ELSE Score(1)

\* one login of ten in the current hour: exactly 10%
C18_Witness ==
    /\ call.kind = "timing"
    /\ Cardinality(Logins) = 10
    /\ Cardinality(LoginsAt(hour(now))) = 1
    /\ risk_factors["timing"] = Score(1)

\* the caller's payments of the trailing window
Transactions(window) ==
    { i \in DOMAIN payments :
        /\ payments[i].user_id = call.user_id
        /\ now - payments[i].created_at < window }

\* C19: amount risk: without transactions in the last 30 days, 0.8 for
\* amount > 10000, 0.5 for 5000 < amount <= 10000, 0.2 otherwise; with such
\* transactions of mean m, 0.8 for amount > 3*m, 0.5 for
\* 2*m < amount <= 3*m, 0.2 otherwise.  The absolute bounds are never
\* applied when there is history, the relative ones never when there is none.
C19_AmountRisk ==
    call.kind = "amount" =>
        LET month == Transactions(timedelta_days(30))
            n == Cardinality(month)
            total == total_amount(month)
            amount == call.data.amount
        IN  risk_factors["amount"] =
                IF n = 0
                THEN IF amount > 10000 THEN Score(8)
                     ELSE IF amount > 5000 THEN Score(5)
                     ELSE Score(2)
                \* amount > 3 * m with m = total / n
                ELSE IF n * amount > 3 * total THEN Score(8)
                     ELSE IF n * amount > 2 * total THEN Score(5)
                     ELSE Score(2)

\* 10001 against a history of mean 5000: over twice the mean, not over three
\* times, and over the absolute bound of 10000
C19_Witness ==
    /\ call.kind = "amount"
    /\ call.data.amount = 10001
    /\ Transactions(timedelta_days(30)) # {}
    /\ total_amount(Transactions(timedelta_days(30)))
          = 5000 * Cardinality(Transactions(timedelta_days(30)))
    /\ risk_factors["amount"] = Score(5)

\* C20: frequency risk is determined by the number n of the user's
\* transactions in the trailing 24 hours: 0.9 when n > 10, 0.6 when
\* 5 < n <= 10, 0.2 when n <= 5.
C20_FrequencyRisk ==
    call.kind = "frequency" =>
        LET n == Cardinality(Transactions(timedelta_hours(24)))
        IN  risk_factors["frequency"] =
                IF n > 10 THEN Score(9)
                ELSE IF 5 < n /\ n <= 10 THEN Score(6)
                ELSE Score(2)

\* eleven payments of user 1 in the trailing 24 hours, beside older ones and
\* those of user 2
C20_Witness ==
    /\ call.kind = "frequency"
    /\ call.user_id = 1
    /\ Cardinality(Transactions(timedelta_hours(24))) = 11
    /\ Cardinality(Transactions(timedelta_days(30))) > 11
    /\ \E p \in Range(payments) : p.user_id = 2
    /\ risk_factors["frequency"] = Score(9)

\* the time of day of the evaluation, in half hours after midnight
TimeOfDay == now % timedelta_hours(24)

\* C21: behavioral risk starts at 0.0, adds 0.3 exactly when the declared
\* payment method is not bank_transfer or card (a payload without a payment
\* method counts as not recognized), adds 0.2 exactly when the time of the
\* evaluation is before 06:00 or after 22:00, and is capped at 1.0; the
\* result is one of 0.0, 0.2, 0.3, 0.5.
C21_BehavioralRisk ==
    call.kind = "behavioral" =>
        LET method == IF call.data.payment_method \in {"bank_transfer", "card"}
                      THEN 0 ELSE Score(3)
            clock == IF TimeOfDay < timedelta_hours(6) \/ TimeOfDay > timedelta_hours(22)
                     THEN Score(2) ELSE 0
        IN  /\ risk_factors["behavioral"] = method + clock
            /\ risk_factors["behavioral"] \in {0, Score(2), Score(3), Score(5)}

\* C22: no score the engine returns resolves to the tier biometric_mfa: the
\* overall login score is at most 0.65 and the overall transaction score at
\* most (0.8 + 0.9 + 0.5) / 3, which is below 0.8, so the resolver answers a
\* returned score with basic or mfa only.
C22_NeverBiometric ==
    (call.kind \in {"login", "transaction"} /\ result.raised = FALSE) =>
        /\ call.kind = "login" => 2 * result.value[1] <= Score(13)
        /\ call.kind = "transaction" =>
              3 * result.value[1] <= Score(8) + Score(9) + Score(5)
        /\ 3 * risk_thresholds.high > Score(8) + Score(9) + Score(5)
        /\ determine_auth_requirements(result.value[1]).auth_level \in {"basic", "mfa"}
        /\ ~determine_auth_requirements(result.value[1]).requires_biometric

\* the highest transaction score: a payment of six times the mean, the
\* twelfth of the day, by crypto at 23:00
C22_Witness ==
    /\ call.kind = "transaction"
    /\ result.raised = FALSE
    /\ risk_factors = ("amount" :> Score(8)) @@ ("frequency" :> Score(9))
                        @@ ("behavioral" :> Score(5))
    /\ 3 * result.value[1] = Score(8) + Score(9) + Score(5)
    /\ determine_auth_requirements(result.value[1]).auth_level = "mfa"

\* the events of any kind recorded for the user
EventsOf(user_id) ==
    { i \in DOMAIN security_events : security_events[i].user_id = user_id }

\* C23: the login handler assesses before it records the login's own event,
\* so the k-th valid login of a user within one hour, with no other events of
\* that user, is assessed against k-1 events: its velocity factor is 0.1 for
\* k <= 3, 0.4 for 4 <= k <= 6 and 0.8 for k >= 7.
C23_VelocityOfKthLogin ==
    [][(/\ pc = "idle"
        /\ pc' = "login"
        /\ call'.user_id = Returning
        /\ \A i \in EventsOf(Returning) :
              now - security_events[i].created_at < timedelta_hours(1))
          => LET k == requests'
             IN  /\ Cardinality(EventsOf(Returning)) = k - 1
                 /\ security_events' = security_events
                 /\ risk_factors'["velocity"] =
                       IF k <= 3 THEN Score(1)
                       ELSE IF 4 <= k /\ k <= 6 THEN Score(4)
                       ELSE Score(8)]_vars

\* the seventh login of the user is under assessment, six events recorded
C23_Witness ==
    /\ pc = "login"
    /\ call.user_id = Returning
    /\ requests = 7
    /\ Cardinality(EventsOf(Returning)) = 6
    /\ \A i \in EventsOf(Returning) :
          /\ security_events[i].event_type = "login"
          /\ now - security_events[i].created_at < timedelta_hours(1)
    /\ risk_factors["velocity"] = Score(8)

\* the number of 'login' events recorded
LoginEvents(events) ==
    Cardinality({ i \in DOMAIN events : events[i].event_type = "login" })

C25_PaymentGate ==
    /\ [][(pc = "payment" /\ pc' = "idle") =>
            /\ risk_assessments' = risk_assessments
            /\ risk_assessments[Len(risk_assessments)] =
                  RiskAssessment(call.user_id, "transaction", risk_factors, risk_score)
            /\ risk_score < Score(6) =>
                  /\ payments' = Append(payments,
                                        [user_id |-> call.user_id,
                                         amount |-> call.data.amount,
                                         created_at |-> now])
                  /\ response' = "payment"
            /\ risk_score >= Score(6) =>
                  /\ payments' = payments
                  /\ response' = "requires_additional_auth"]_vars
    /\ [][payments' # payments => (pc = "payment" /\ risk_score < Score(6))]_vars

\* a payment was refused for additional authentication: no payment beside
\* the eleven of the history, and the audit record of the assessment stored
C25_Witness ==
    /\ pc = "idle"
    /\ call.kind = "transaction"
    /\ response = "requires_additional_auth"
    /\ Len(payments) = 11
    /\ Len(risk_assessments) = 2
    /\ risk_assessments[2].assessment_type = "transaction"
    /\ risk_assessments[2].overall_risk = risk_score
    /\ risk_score >= Score(6)
====
